---- MODULE Spec2Model ----
(***************************************************************************)
(* A model of src/src/client/client.ts: the surface-point tracker of the   *)
(* 3D character viewer.  The state is the module-level state of client.ts  *)
(* (the marker and its selection, the frame counter, the kinematic state,  *)
(* the thirteen chart arrays, the animation player's variables and the     *)
(* position of init() in its sequence of awaited loads); the actions are   *)
(* the handlers the browser calls: the frame callback animate(), the       *)
(* pointerdown listener, the animation buttons (setAction) and the         *)
(* resolution or rejection of each awaited asset load.                     *)
(*                                                                         *)
(* Numbers.  JavaScript numbers are modelled as exact extended rationals   *)
(* <<n, d>> in lowest terms with d >= 0: d > 0 is the rational n/d,        *)
(* <<1,0>> is +Infinity, <<-1,0>> is -Infinity and <<0,0>> is NaN, with    *)
(* the IEEE-754 rules for the special values (x/0, Inf - Inf, 0 * Inf).    *)
(* Rounding and the sign of zero are not modelled.                         *)
(***************************************************************************)
EXTENDS Integers, Sequences, FiniteSets, TLC

----------------------------------------------------------------------------
(* Extended rational arithmetic *)

Abs(x) == IF x < 0 THEN -x ELSE x

Sgn(x) == IF x < 0 THEN -1 ELSE IF x > 0 THEN 1 ELSE 0

RECURSIVE GCD(_, _)
GCD(a, b) == IF b = 0 THEN a ELSE GCD(b, a % b)

Norm(n, d) ==
  IF d = 0 THEN <<Sgn(n), 0>>
  ELSE LET s == Sgn(d)
           g == GCD(Abs(n), Abs(d))
       IN  <<(s * n) \div g, (s * d) \div g>>

R(n) == <<n, 1>>

Q(n, d) == Norm(n, d)

Zero == R(0)

One == R(1)

NaN == <<0, 0>>

PosInf == <<1, 0>>

NegInf == <<-1, 0>>

IsFinite(a) == a[2] # 0

(* Finite operands are reduced before they are multiplied, so that the     *)
(* intermediate products stay small.                                       *)
RAdd(a, b) ==
  IF a[2] = 1 /\ b[2] = 1 THEN <<a[1] + b[1], 1>>
  ELSE IF a[2] = 0 /\ b[2] = 0 THEN (IF a = b THEN a ELSE NaN)
  ELSE IF a[2] = 0 THEN a
  ELSE IF b[2] = 0 THEN b
  ELSE IF a[1] = 0 THEN b
  ELSE IF b[1] = 0 THEN a
  ELSE LET g == GCD(a[2], b[2])
       IN  Norm(a[1] * (b[2] \div g) + b[1] * (a[2] \div g), (a[2] \div g) * b[2])

RNeg(a) == <<-a[1], a[2]>>

RSub(a, b) == RAdd(a, RNeg(b))

RMul(a, b) ==
  IF a[2] = 1 /\ b[2] = 1 THEN <<a[1] * b[1], 1>>
  ELSE IF a[2] = 0 \/ b[2] = 0 THEN <<Sgn(a[1]) * Sgn(b[1]), 0>>
  ELSE IF a[1] = 0 \/ b[1] = 0 THEN Zero
  ELSE LET g == GCD(Abs(a[1]), b[2])
           h == GCD(Abs(b[1]), a[2])
       IN  <<(a[1] \div g) * (b[1] \div h), (a[2] \div h) * (b[2] \div g)>>

(* 1/b: 1/0 is +Infinity, 1/Infinity is 0 *)
Recip(b) ==
  IF b[1] < 0 THEN <<-b[2], -b[1]>>
  ELSE IF b[1] = 0 /\ b[2] # 0 THEN PosInf
  ELSE <<b[2], b[1]>>

RDiv(a, b) ==
  IF b[2] = 0 /\ a[2] # 0 THEN <<0, Abs(b[1])>>
  ELSE RMul(a, Recip(b))

RSgn(a) == Sgn(a[1])

----------------------------------------------------------------------------
(* THREE.Vector3 *)

V(x, y, z) == <<R(x), R(y), R(z)>>

VZero == V(0, 0, 0)

VAdd(a, b) == <<RAdd(a[1], b[1]), RAdd(a[2], b[2]), RAdd(a[3], b[3])>>

VSub(a, b) == <<RSub(a[1], b[1]), RSub(a[2], b[2]), RSub(a[3], b[3])>>

multiplyScalar(a, s) == <<RMul(a[1], s), RMul(a[2], s), RMul(a[3], s)>>

divideScalar(a, s) == multiplyScalar(a, RDiv(One, s))

Dot(a, b) == RAdd(RAdd(RMul(a[1], b[1]), RMul(a[2], b[2])), RMul(a[3], b[3]))

Cross(a, b) ==
  <<RSub(RMul(a[2], b[3]), RMul(a[3], b[2])),
    RSub(RMul(a[3], b[1]), RMul(a[1], b[3])),
    RSub(RMul(a[1], b[2]), RMul(a[2], b[1]))>>

VFinite(a) == IsFinite(a[1]) /\ IsFinite(a[2]) /\ IsFinite(a[3])

----------------------------------------------------------------------------
(* THREE.Matrix4, restricted to affine maps: r is the 3x3 linear part      *)
(* (a tuple of rows), t the translation.                                   *)

Mat(r1, r2, r3, t) == [r |-> <<r1, r2, r3>>, t |-> t]

Identity == Mat(V(1, 0, 0), V(0, 1, 0), V(0, 0, 1), VZero)

Col(m, j) == <<m.r[1][j], m.r[2][j], m.r[3][j]>>

LinApply(r, v) == <<Dot(r[1], v), Dot(r[2], v), Dot(r[3], v)>>

applyMatrix4(v, m) == VAdd(LinApply(m.r, v), m.t)

multiply(a, b) ==
  [r |-> [i \in 1..3 |-> <<Dot(a.r[i], Col(b, 1)), Dot(a.r[i], Col(b, 2)),
                           Dot(a.r[i], Col(b, 3))>>],
   t |-> applyMatrix4(b.t, a)]

Det(r) == Dot(r[1], Cross(r[2], r[3]))

invert(m) ==
  LET d  == Det(m.r)
      c1 == Cross(m.r[2], m.r[3])
      c2 == Cross(m.r[3], m.r[1])
      c3 == Cross(m.r[1], m.r[2])
      ri == [i \in 1..3 |-> <<RDiv(c1[i], d), RDiv(c2[i], d), RDiv(c3[i], d)>>]
  IN  IF d = Zero
      THEN [r |-> <<VZero, VZero, VZero>>, t |-> VZero]
      ELSE [r |-> ri, t |-> multiplyScalar(LinApply(ri, m.t), R(-1))]

Scale(s) == Mat(<<s, Zero, Zero>>, <<Zero, s, Zero>>, <<Zero, Zero, s>>, VZero)

Translate(t) == [r |-> Identity.r, t |-> t]

RotY90 == Mat(V(0, 0, 1), V(0, 1, 0), V(-1, 0, 0), VZero)

----------------------------------------------------------------------------
(* The loaded asset (models/model.fbx): one skinned mesh.  Vertex indices  *)
(* are 0-based as in the buffer attributes; tuples are 1-based.            *)

position == <<V(0, 0, 0), V(2, 0, 0), V(0, 2, 0), V(2, 2, 2)>>

skinIndex == <<<<0, 0, 0, 0>>, <<1, 0, 0, 0>>, <<0, 1, 0, 0>>, <<1, 0, 0, 0>>>>

skinWeight ==
  <<<<One, Zero, Zero, Zero>>, <<One, Zero, Zero, Zero>>,
    <<Q(1, 2), Q(1, 2), Zero, Zero>>, <<One, Zero, Zero, Zero>>>>

fromBufferAttribute(attr, index) == attr[index + 1]

Vertices == 0..(Len(position) - 1)

Faces == {<<0, 1, 2>>, <<1, 3, 2>>}

(* Animation *)

fileNames == <<"model", "jump", "cover", "idle">>

labels == <<"default", "jump", "turn_back", "idle">>

ClipOf(action) == (CHOOSE k \in 1..Len(labels) : labels[k] = action) - 1

ClipLen == 3

BindPose == <<-1, 0>>

Poses == {BindPose} \cup ((0..(Len(fileNames) - 1)) \X (0..(ClipLen - 1)))

(* skeleton.boneMatrices for a pose <<clip, time>>: bone 0 is the root,    *)
(* bone 1 is moved by the clip.                                            *)
boneMatrices(pose) ==
  LET c == pose[1]
      t == pose[2]
  IN  CASE c = 0 -> <<Identity, Translate(V(t, 0, 0))>>
        [] c = 1 -> <<Identity, Translate(V(0, t * (ClipLen - t), 0))>>
        [] c = 2 -> IF t >= 2 THEN <<RotY90, RotY90>> ELSE <<Identity, Identity>>
        [] OTHER -> <<Identity, Identity>>

----------------------------------------------------------------------------
(* Skinned Point Evaluator *)

RECURSIVE SkinSum(_, _, _, _, _)
SkinSum(pos, indices, weights, bones, i) ==
  IF i > 4 THEN VZero
  ELSE LET w    == weights[i]
           rest == SkinSum(pos, indices, weights, bones, i + 1)
       IN  IF w = Zero \/ w = NaN THEN rest
           ELSE VAdd(multiplyScalar(applyMatrix4(pos, bones[indices[i] + 1]), w),
                     rest)

computeSkinnedWorldPosition(mesh, index, pose) ==
  LET pos         == fromBufferAttribute(position, index)
      skinIndices == fromBufferAttribute(skinIndex, index)
      skinWeights == fromBufferAttribute(skinWeight, index)
      target      == SkinSum(pos, skinIndices, skinWeights, boneMatrices(pose), 1)
  IN  applyMatrix4(target, mesh.matrixWorld)

----------------------------------------------------------------------------
(* THREE.Triangle *)

getBarycoord(point, a, b, c) ==
  LET v0    == VSub(c, a)
      v1    == VSub(b, a)
      v2    == VSub(point, a)
      dot00 == Dot(v0, v0)
      dot01 == Dot(v0, v1)
      dot02 == Dot(v0, v2)
      dot11 == Dot(v1, v1)
      dot12 == Dot(v1, v2)
      denom == RSub(RMul(dot00, dot11), RMul(dot01, dot01))
      inv   == RDiv(One, denom)
      u     == RMul(RSub(RMul(dot11, dot02), RMul(dot01, dot12)), inv)
      v     == RMul(RSub(RMul(dot00, dot12), RMul(dot01, dot02)), inv)
  IN  IF denom = Zero THEN VZero
      ELSE <<RSub(RSub(One, u), v), v, u>>

(* A unit vector is represented by the primitive integer vector of the     *)
(* same direction (the square root of normalize() is not rational); the    *)
(* zero vector stays zero, as in Vector3.normalize().                      *)
LCM(a, b) == (a \div GCD(a, b)) * b

normalize(v) ==
  LET m == LCM(LCM(v[1][2], v[2][2]), v[3][2])
      x == v[1][1] * (m \div v[1][2])
      y == v[2][1] * (m \div v[2][2])
      z == v[3][1] * (m \div v[3][2])
      g == GCD(GCD(Abs(x), Abs(y)), Abs(z))
  IN  IF g = 0 THEN VZero ELSE V(x \div g, y \div g, z \div g)

getNormal(a, b, c) == normalize(Cross(VSub(c, b), VSub(a, b)))

----------------------------------------------------------------------------
(* Orientation: marker.quaternion.setFromUnitVectors((0,1,0), n) followed  *)
(* by Euler.setFromQuaternion (order XYZ).  With q = (n.z, 0, -n.x,        *)
(* 1 + n.y) normalised the rotation matrix has m13 = -n.x n.z / (1 + n.y), *)
(* -m23 = n.z, m33 = n.y + n.x^2/(1 + n.y), -m12 = -n.x and                *)
(* m11 = n.y + n.z^2/(1 + n.y), so x = atan2(n.z, m33), y = asin(m13),     *)
(* z = atan2(-n.x, m11).  Angles are in eighths of a turn: a multiple of a *)
(* quarter turn is exact, an angle strictly inside a quadrant is mapped to *)
(* the middle of the quadrant.                                             *)

Atan2Q(y, x) ==
  LET a == IF x > 0 THEN 1 ELSE IF x = 0 THEN 2 ELSE 3
  IN  IF y = 0 THEN (IF x >= 0 THEN 0 ELSE 4)
      ELSE IF y > 0 THEN a ELSE -a

(* The sign of a/b - c/d for a, c >= 0 and b, d > 0, by the Euclidean      *)
(* algorithm (no products).                                                *)
RECURSIVE CmpFrac(_, _, _, _)
CmpFrac(a, b, c, d) ==
  LET qa == a \div b
      qc == c \div d
      ra == a % b
      rc == c % d
  IN  IF qa # qc THEN Sgn(qa - qc)
      ELSE IF ra = 0 \/ rc = 0 THEN Sgn(ra - rc)
      ELSE -CmpFrac(b, ra, d, rc)

(* The sign of p + q^2/(1 + p) for the unit vector along N, where P and Qc *)
(* are the components of N that stand for p and q and Rc is the third: for *)
(* P < 0 it is the sign of Qc^2 (Qc^2 + P^2) - P^2 Rc^2.                   *)
SgnDiag(P, Qc, Rc) ==
  IF P > 0 THEN 1
  ELSE IF P = 0 \/ Rc = 0 THEN Sgn(Abs(Qc))
  ELSE CmpFrac(Qc * Qc, P * P, Rc * Rc, Qc * Qc + P * P)

EulerOf(n) ==
  LET X == n[1][1]
      Y == n[2][1]
      Z == n[3][1]
  IN  IF X = 0 /\ Z = 0
      THEN (IF Y < 0 THEN V(0, 0, -4) ELSE VZero)
      ELSE V(Atan2Q(Z, SgnDiag(Y, X, Z)), -Sgn(X * Z), Atan2Q(-X, SgnDiag(Y, Z, X)))

----------------------------------------------------------------------------
(* Bounds of the model *)

MaxDt == 2

MaxFrame == 3

MaxUserFrame == 0

MaxLongFrame == 102

LongDt == 1

(* Program constants *)

Capacity == 100

DisplayScale == 100

Null == "null"

Undefined == "undefined"

(* An optional object (null or an object) is a sequence of length 0 or 1. *)
None == <<>>

Some(x) == <<x>>

InitDone == Len(fileNames)

InitRejected == -1

Series ==
  {"frameData", "xData", "yData", "zData", "eulerX", "eulerY", "eulerZ",
   "angVelX", "angVelY", "angVelZ", "linAccX", "linAccY", "linAccZ"}

VARIABLES
  initPc,          \* init(): the await it is suspended at, "done" or "rejected"
  clips,           \* clips.length
  mesh,            \* the SkinnedMesh of the base model once it is in the scene
  mixer,           \* Undefined until init() creates the AnimationMixer
  animationActions,
  activeAction,
  actionTime,      \* activeAction.time
  modelReady,
  skeletonPose,    \* the pose the bones' world matrices hold (last render)
  markerVisible,
  markerData,      \* marker.userData._data
  markerPosition,
  frame,
  lastPos,
  lastVel,
  lastEuler,
  data,            \* the thirteen chart arrays
  verts,           \* animate(): the verts array at the end of the last sample
  normal,          \* animate(): the normal handed to setFromUnitVectors
  hitPoint,        \* pointerdown: hit.point of the last pick
  localHit,        \* pointerdown: localHit of the last pick
  producedAt,      \* history: for each array, the frame that pushed each entry
  dtLog,           \* history: dt of each sample, by frame index
  readsUnready,    \* history: animation state read while modelReady was false
  lastPick         \* history: how the last pointerdown ended

vars ==
  <<initPc, clips, mesh, mixer, animationActions, activeAction, actionTime,
    modelReady, skeletonPose, markerVisible, markerData, markerPosition, frame,
    lastPos, lastVel, lastEuler, data, verts, normal, hitPoint, localHit,
    producedAt, dtLog, readsUnready, lastPick>>

loaderVars ==
  <<initPc, clips, mesh, mixer, animationActions, activeAction, actionTime,
    modelReady>>

pickVars == <<markerVisible, markerData, hitPoint, localHit, lastPick>>

sampleVars ==
  <<markerPosition, frame, lastPos, lastVel, lastEuler, data, verts, normal,
    producedAt, dtLog>>

Init ==
  /\ initPc = 0
  /\ clips = 0
  /\ mesh = None
  /\ mixer = Undefined
  /\ animationActions = <<>>
  /\ activeAction = Null
  /\ actionTime = 0
  /\ modelReady = FALSE
  /\ skeletonPose = BindPose
  /\ markerVisible = FALSE
  /\ markerData = None
  /\ markerPosition = VZero
  /\ frame = 0
  /\ lastPos = VZero
  /\ lastVel = VZero
  /\ lastEuler = VZero
  /\ data = [s \in Series |-> <<>>]
  /\ verts = <<>>
  /\ normal = VZero
  /\ hitPoint = VZero
  /\ localHit = VZero
  /\ producedAt = [s \in Series |-> <<>>]
  /\ dtLog = <<>>
  /\ readsUnready = {}
  /\ lastPick = "none"

----------------------------------------------------------------------------
(* init(): the sequential asset loads *)

initBase(W, B) ==
  /\ initPc = 0
  /\ mixer' = "mixer"
  /\ mesh' = Some([matrixWorld |-> W, bindMatrix |-> B])
  /\ clips' = clips + 1
  /\ initPc' = 1
  /\ UNCHANGED <<animationActions, activeAction, actionTime, modelReady>>
  /\ UNCHANGED <<skeletonPose, readsUnready>>
  /\ UNCHANGED pickVars
  /\ UNCHANGED sampleVars

initClip ==
  /\ initPc \in 1..(Len(fileNames) - 1)
  /\ clips' = clips + 1
  /\ IF initPc < Len(fileNames) - 1
     THEN /\ initPc' = initPc + 1
          /\ UNCHANGED <<animationActions, activeAction, actionTime, modelReady>>
     ELSE /\ initPc' = InitDone
          /\ animationActions' = [k \in 1..clips' |-> labels[k]]
          /\ activeAction' = animationActions'[1]
          /\ actionTime' = 0
          /\ modelReady' = TRUE
  /\ UNCHANGED <<mesh, mixer, skeletonPose, readsUnready>>
  /\ UNCHANGED pickVars
  /\ UNCHANGED sampleVars

initRejected ==
  /\ initPc \in 0..(Len(fileNames) - 1)
  /\ initPc' = InitRejected
  /\ UNCHANGED <<clips, mesh, mixer, animationActions, activeAction, actionTime,
                 modelReady, skeletonPose, readsUnready>>
  /\ UNCHANGED pickVars
  /\ UNCHANGED sampleVars

----------------------------------------------------------------------------
(* The animation buttons *)

setAction(idx) ==
  LET toAction == IF idx + 1 \in DOMAIN animationActions
                  THEN animationActions[idx + 1] ELSE Undefined
  IN  /\ IF toAction # activeAction
         THEN /\ activeAction' = toAction
              \* activeAction.reset() throws a TypeError on undefined
              /\ actionTime' = IF toAction = Undefined THEN actionTime ELSE 0
         ELSE UNCHANGED <<activeAction, actionTime>>
      /\ readsUnready' =
           IF modelReady THEN readsUnready
           ELSE readsUnready \cup {"animationActions", "activeAction"}
      /\ UNCHANGED <<initPc, clips, mesh, mixer, animationActions, modelReady,
                     skeletonPose>>
      /\ UNCHANGED pickVars
      /\ UNCHANGED sampleVars

----------------------------------------------------------------------------
(* Surface Picker: the pointerdown listener *)

(* Mesh.getVertexPosition of three.js, which the raycast uses for a skinned *)
(* mesh: the vertex as it is displayed, in the mesh's local space.          *)
DisplayedVertex(m, index, pose) ==
  LET base == applyMatrix4(fromBufferAttribute(position, index), m.bindMatrix)
      sum  == SkinSum(base, fromBufferAttribute(skinIndex, index),
                      fromBufferAttribute(skinWeight, index), boneMatrices(pose), 1)
  IN  applyMatrix4(sum, invert(m.bindMatrix))

Blend(a, b, c, w) ==
  VAdd(VAdd(multiplyScalar(a, w[1]), multiplyScalar(b, w[2])), multiplyScalar(c, w[3]))

(* The rays cast at the body: a face and the barycentric weights of the    *)
(* point hit on the displayed triangle, one interior and one on an edge.   *)
RayHits ==
  {<<<<0, 1, 2>>, <<Q(1, 2), Q(1, 4), Q(1, 4)>>>>, <<<<1, 3, 2>>, <<Zero, Q(1, 2), Q(1, 2)>>>>}

BodyHit(m, pose, face, w) ==
  [isSkinnedMesh |-> TRUE,
   face  |-> face,
   point |-> applyMatrix4(
               Blend(DisplayedVertex(m, face[1], pose),
                     DisplayedVertex(m, face[2], pose),
                     DisplayedVertex(m, face[3], pose), w),
               m.matrixWorld)]

(* The world and bind transforms of the loaded mesh: base.scale is set to  *)
(* 0.01, and the bind matrix of the asset is the identity.                 *)
WorldTransforms == {Scale(Q(1, 100))}

BindTransforms == {Identity}

(* Other transforms a loaded asset may carry. *)
AnyWorldTransforms ==
  WorldTransforms \cup {multiply(Translate(V(1, 0, 0)), Scale(Q(1, 100))), Identity}

AnyBindTransforms ==
  BindTransforms \cup {multiply(Translate(V(0, 1, 0)), Scale(R(2))), RotY90}

(* A hit on the axes helper or on the marker sphere. *)
OtherHit == [isSkinnedMesh |-> FALSE, face |-> <<0, 0, 0>>, point |-> VZero]

(* raycaster.intersectObjects(scene.children, true): the hits of one ray,  *)
(* nearest first.                                                          *)
NoSkinnedHit == {<<>>, <<OtherHit>>}

Intersections ==
  NoSkinnedHit
    \cup (IF mesh = None THEN {}
          ELSE LET B == {BodyHit(mesh[1], skeletonPose, h[1], h[2]) : h \in RayHits}
                   b == CHOOSE h \in B : TRUE
               IN  {<<h>> : h \in B} \cup {<<OtherHit, b>>, <<b, OtherHit>>})

FirstSkinnedMesh(hits) ==
  LET S == {k \in 1..Len(hits) : hits[k].isSkinnedMesh}
  IN  IF S = {} THEN 0 ELSE CHOOSE k \in S : \A j \in S : k <= j

LocalHitMatrix(m) == multiply(invert(m.matrixWorld), m.bindMatrix)

LocalHit(m, hit) == applyMatrix4(hit.point, LocalHitMatrix(m))

(* The selection the handler stores for a hit on the skinned mesh. *)
PickSelection(m, hit) ==
  LET lh == LocalHit(m, hit)
      v0 == fromBufferAttribute(position, hit.face[1])
      v1 == fromBufferAttribute(position, hit.face[2])
      v2 == fromBufferAttribute(position, hit.face[3])
  IN  [mesh |-> "body", indices |-> hit.face, barycoord |-> getBarycoord(lh, v0, v1, v2)]

(* Faulty variant: a pick that misses clears the selection *)
DataCleared(hits, k, md) ==
  IF k = 0 THEN None ELSE Some(PickSelection(mesh[1], hits[k]))

(* marker.userData._data and marker.visible after the loop over the hits:  *)
(* k is the first hit on a skinned mesh, 0 when there is none.             *)
DataAfter(hits, k, md) ==
  IF k = 0 THEN md ELSE Some(PickSelection(mesh[1], hits[k]))

VisibleAfter(k, visible) == IF k = 0 THEN visible ELSE TRUE

pointerdown(hits) ==
  LET k == FirstSkinnedMesh(hits)
  IN  /\ markerData' = DataAfter(hits, k, markerData)
      /\ markerVisible' = VisibleAfter(k, markerVisible)
      /\ hitPoint' = IF k = 0 THEN hitPoint ELSE hits[k].point
      /\ localHit' = IF k = 0 THEN localHit ELSE LocalHit(mesh[1], hits[k])
      /\ lastPick' = IF k = 0 THEN "miss" ELSE "hit"
      /\ UNCHANGED <<skeletonPose, readsUnready>>
      /\ UNCHANGED loaderVars
      /\ UNCHANGED sampleVars

----------------------------------------------------------------------------
(* Tracked-Point Sampler, Kinematics Estimator, Rolling Series Buffer:     *)
(* the frame callback                                                      *)

(* The verts array after the position has been blended: multiplyScalar     *)
(* works in place, so verts[1] and verts[2] are left scaled; verts[0] was  *)
(* copied first and is not touched.                                        *)
VertsAfterBlend(e, barycoord) ==
  <<e[1], multiplyScalar(e[2], barycoord[2]), multiplyScalar(e[3], barycoord[3])>>

(* Faulty variant: the first vertex is not weighted *)
TrackedFirstUnweighted(e, barycoord) ==
  multiplyScalar(
    VAdd(VAdd(e[1], multiplyScalar(e[2], barycoord[2])),
         multiplyScalar(e[3], barycoord[3])),
    R(DisplayScale))

TrackedPosition(e, barycoord) ==
  LET va == VertsAfterBlend(e, barycoord)
  IN  multiplyScalar(VAdd(VAdd(multiplyScalar(e[1], barycoord[1]), va[2]), va[3]),
                     R(DisplayScale))

Velocity(p, prevPos, delta) == divideScalar(VSub(p, prevPos), delta)

Acceleration(vel, prevVel, delta) == divideScalar(VSub(vel, prevVel), delta)

AngularVelocity(euler, prevEuler, delta) ==
  <<RDiv(RSub(euler[1], prevEuler[1]), delta),
    RDiv(RSub(euler[2], prevEuler[2]), delta),
    RDiv(RSub(euler[3], prevEuler[3]), delta)>>

FrameSample(n, p, euler, angVel, acc) ==
  [s \in Series |->
     CASE s = "frameData" -> n
       [] s = "xData" -> p[1]
       [] s = "yData" -> p[2]
       [] s = "zData" -> p[3]
       [] s = "eulerX" -> euler[1]
       [] s = "eulerY" -> euler[2]
       [] s = "eulerZ" -> euler[3]
       [] s = "angVelX" -> angVel[1]
       [] s = "angVelY" -> angVel[2]
       [] s = "angVelZ" -> angVel[3]
       [] s = "linAccX" -> acc[1]
       [] s = "linAccY" -> acc[2]
       [] s = "linAccZ" -> acc[3]]

(* Faulty variants of the buffer operations *)
shiftFrameDataOnly(arrays) ==
  [s \in Series |-> IF s = "frameData" THEN Tail(arrays[s]) ELSE arrays[s]]

TrimAtCapacity(arrays) ==
  IF Len(arrays["frameData"]) >= Capacity
  THEN [s \in Series |-> Tail(arrays[s])]
  ELSE arrays

push(arrays, sample) == [s \in Series |-> Append(arrays[s], sample[s])]

shift(arrays) == [s \in Series |-> Tail(arrays[s])]

Trim(arrays) ==
  IF Len(arrays["frameData"]) > Capacity THEN shift(arrays) ELSE arrays

(* Faulty variants of the sampler's bookkeeping *)
NextFrameSkipping(n) == n + 2

lastVelFromAcc(vel, acc) == acc

NextFrame(n) == n + 1

NextLastVel(vel, acc) == vel

(* verts as indices.map returns it: the three evaluated vertices *)
EvaluatedVerts(m, pose, md) ==
  <<computeSkinnedWorldPosition(m, md.indices[1], pose),
    computeSkinnedWorldPosition(m, md.indices[2], pose),
    computeSkinnedWorldPosition(m, md.indices[3], pose)>>

(* Lines 348-380 of one sample: the locals of animate() *)
Sampled(m, pose, md, prevPos, prevVel, prevEuler, delta) ==
  LET e      == EvaluatedVerts(m, pose, md)
      p      == TrackedPosition(e, md.barycoord)
      va     == VertsAfterBlend(e, md.barycoord)
      nrm    == getNormal(va[1], va[2], va[3])
      euler  == EulerOf(nrm)
      vel    == Velocity(p, prevPos, delta)
      acc    == Acceleration(vel, prevVel, delta)
      angVel == AngularVelocity(euler, prevEuler, delta)
  IN  [p |-> p, verts |-> va, normal |-> nrm, euler |-> euler, vel |-> vel,
       acc |-> acc, angVel |-> angVel]

(* Lines 358-431: what one sample s writes *)
Record(s, delta) ==
  /\ markerPosition' = s.p
  /\ verts' = s.verts
  /\ normal' = s.normal
  /\ frame' = NextFrame(frame)
  /\ data' = Trim(push(data, FrameSample(frame', s.p, s.euler, s.angVel, s.acc)))
  /\ producedAt' = Trim(push(producedAt, [c \in Series |-> frame']))
  /\ dtLog' = Append(dtLog, delta)
  /\ lastPos' = s.p
  /\ lastVel' = NextLastVel(s.vel, s.acc)
  /\ lastEuler' = s.euler

Sampling == markerVisible /\ markerData # None

MixerTime(d) == IF modelReady THEN (actionTime + d) % ClipLen ELSE actionTime

animate(d) ==
  /\ actionTime' = MixerTime(d)
  \* renderer.render updates the bones' world matrices
  /\ skeletonPose' =
       IF modelReady THEN <<ClipOf(activeAction), MixerTime(d)>> ELSE skeletonPose
  /\ readsUnready' =
       IF Sampling /\ ~modelReady THEN readsUnready \cup {"skeleton"}
       ELSE readsUnready
  /\ UNCHANGED <<initPc, clips, mesh, mixer, animationActions, activeAction,
                 modelReady>>
  /\ UNCHANGED pickVars
  /\ IF Sampling
     THEN Record(Sampled(mesh[1], skeletonPose, markerData[1], lastPos, lastVel,
                         lastEuler, R(d)), R(d))
     ELSE UNCHANGED sampleVars

----------------------------------------------------------------------------
(* The browser: any handler may run next.  The number of samples is        *)
(* bounded by MaxFrame.                                                    *)

Load(Ws, Bs) ==
  \/ \E W \in Ws, B \in Bs : initBase(W, B)
  \/ initClip
  \/ initRejected

(* The user presses buttons and picks points while at most MaxUserFrame    *)
(* samples have been taken.                                                *)
Button ==
  /\ frame <= MaxUserFrame
  /\ \E idx \in 0..(Len(labels) - 1) : setAction(idx)

Click ==
  /\ frame <= MaxUserFrame
  /\ \E hits \in Intersections : pointerdown(hits)

Frame ==
  /\ frame < MaxFrame
  /\ \E d \in 0..MaxDt : animate(d)

Next == Load(WorldTransforms, BindTransforms) \/ Button \/ Click \/ Frame

Spec == Init /\ [][Next]_vars

(* A long recording: the user picks once the model has loaded, and the     *)
(* clock ticks steadily until the buffer has been filled and trimmed.      *)
ClickLong == modelReady /\ Click

FrameLong == frame < MaxLongFrame /\ animate(LongDt)

NextLong == Load(WorldTransforms, BindTransforms) \/ ClickLong \/ FrameLong

SpecLong == Init /\ [][NextLong]_vars

(* Picking on assets with other world and bind transforms *)
NextPick == Load(AnyWorldTransforms, AnyBindTransforms) \/ Click

SpecPick == Init /\ [][NextPick]_vars
----------------------------------------------------------------------------
(* Properties of the rolling series buffer *)

(* The number of samples appended since page load *)
Appended == Len(dtLog)

Min(a, b) == IF a < b THEN a ELSE b

(* C1: in every reachable state the frame-index series and the twelve     *)
(* channel series have the same length, and the k-th entry of every        *)
(* channel was produced in the same frame as the k-th entry of the         *)
(* frame-index series (which holds that frame's index).                    *)
C1_LockStep ==
  \A c \in Series :
    /\ Len(data[c]) = Len(data["frameData"])
    /\ Len(producedAt[c]) = Len(data[c])
    /\ producedAt[c] = producedAt["frameData"]
    /\ producedAt[c] = data["frameData"]

(* The buffer has been filled and trimmed once. *)
C1_Trimmed ==
  /\ Appended = Capacity + 1
  /\ \A c \in Series : Len(data[c]) = Capacity
  /\ producedAt["linAccZ"][1] = 2

(* C2: after N samples every series has min(N, 100) entries; for N >= 100 *)
(* the frame-index series holds N-99 .. N in order and the oldest entry of *)
(* every series is the one appended at step N-99.                          *)
C2_Fifo ==
  /\ \A c \in Series : Len(data[c]) = Min(Appended, Capacity)
  /\ Appended >= Capacity =>
       /\ data["frameData"] = [k \in 1..Capacity |-> Appended - Capacity + k]
       /\ \A c \in Series : producedAt[c][1] = Appended - Capacity + 1

(* Two entries have been evicted. *)
C2_Evicted ==
  /\ Appended = Capacity + 2
  /\ data["frameData"][1] = 3
  /\ data["frameData"][Capacity] = Capacity + 2

----------------------------------------------------------------------------
(* Properties of the sampler and the kinematics estimator *)

LastOf(q) == q[Len(q)]

(* A step in which a frame sample is produced *)
SampleStep == Len(dtLog') = Len(dtLog) + 1

PosAt(d, k) == <<d["xData"][k], d["yData"][k], d["zData"][k]>>

EulerAt(d, k) == <<d["eulerX"][k], d["eulerY"][k], d["eulerZ"][k]>>

AccAt(d, k) == <<d["linAccX"][k], d["linAccY"][k], d["linAccZ"][k]>>

RecordedPos(d) == PosAt(d, Len(d["xData"]))

RecordedEuler(d) == EulerAt(d, Len(d["eulerX"]))

(* The previous entry of a derivative series, or zero *)
PreviousOrZero(q) == {Zero} \cup (IF Len(q) > 0 THEN {LastOf(q)} ELSE {})

Derivatives == {"angVelX", "angVelY", "angVelZ", "linAccX", "linAccY", "linAccZ"}

(* C3: in a frame that produces a sample with deltaTime zero the          *)
(* derivative computation is skipped: the velocity kept and the linear     *)
(* acceleration and angular velocity recorded are the previous ones or     *)
(* zero, never a quotient by deltaTime.                                    *)
C3_ZeroDtGuarded ==
  [][(SampleStep /\ LastOf(dtLog') = Zero) =>
       /\ lastVel' \in {lastVel, VZero}
       /\ \A c \in Derivatives : LastOf(data'[c]) \in PreviousOrZero(data[c])]_vars

(* A sample taken with deltaTime zero has recorded a quotient by zero. *)
C3_DividedByZero ==
  /\ Appended > 0
  /\ LastOf(dtLog) = Zero
  /\ ~VFinite(lastVel)
  /\ \E c \in Derivatives : ~IsFinite(LastOf(data[c]))

(* C4: no read of the animation actions, the active action or the         *)
(* skeleton pose happens in a state where modelReady is false.             *)
C4_NoReadBeforeReady == readsUnready = {}

(* A button was pressed during loading: the active action has been read    *)
(* and overwritten with animationActions[idx] of the still empty array.    *)
C4_ButtonBeforeReady ==
  /\ ~modelReady
  /\ "activeAction" \in readsUnready
  /\ activeAction = Undefined

(* C5: a pointerdown whose ray hits no skinned mesh leaves the selection,  *)
(* the marker's visibility, the series, the frame counter and the          *)
(* kinematic state unchanged.                                              *)
C5_MissIsNoOp ==
  [][(\E hits \in NoSkinnedHit : pointerdown(hits)) =>
       UNCHANGED <<markerData, markerVisible, data, frame, lastPos, lastVel,
                   lastEuler>>]_vars

(* A pick missed while a selection existed, and that selection has been    *)
(* sampled afterwards.                                                     *)
C5_MissedWhileTracking ==
  /\ lastPick = "miss"
  /\ markerData # None
  /\ markerVisible
  /\ Appended > 0

(* The first sample number held by the series *)
Offset == Appended - Len(data["frameData"])

(* C6: where the position advanced by the same vector over two             *)
(* consecutive samples taken with the same nonzero deltaTime, the linear   *)
(* acceleration recorded for the later one (the third sample of the run or *)
(* a later one) is zero.                                                   *)
C6_ConstantVelocity ==
  \A i \in 3..Len(data["xData"]) :
    ( /\ dtLog[i + Offset] = dtLog[i + Offset - 1]
      /\ dtLog[i + Offset] # Zero
      /\ VSub(PosAt(data, i), PosAt(data, i - 1))
           = VSub(PosAt(data, i - 1), PosAt(data, i - 2)) )
    => AccAt(data, i) = VZero

(* Three samples of a point moving at constant nonzero velocity *)
C6_Moving ==
  /\ Appended = 3
  /\ dtLog[3] = dtLog[2]
  /\ dtLog[3] # Zero
  /\ VSub(PosAt(data, 3), PosAt(data, 2)) = VSub(PosAt(data, 2), PosAt(data, 1))
  /\ PosAt(data, 3) # PosAt(data, 2)
  /\ AccAt(data, 3) = VZero
  /\ AccAt(data, 2) # VZero

(* u*E(i0) + v*E(i1) + w*E(i2) for the selection md in the given pose *)
BlendOf(e, barycoord) == Blend(e[1], e[2], e[3], barycoord)

EvaluatedBlend(m, pose, md) == BlendOf(EvaluatedVerts(m, pose, md), md.barycoord)

EvaluatedNormal(m, pose, md) ==
  LET e == EvaluatedVerts(m, pose, md) IN getNormal(e[1], e[2], e[3])

(* C7 as stated: the position recorded and given to the marker by a       *)
(* sample is u*E(i0) + v*E(i1) + w*E(i2).                                  *)
C7_PlainBlend ==
  [][SampleStep =>
       /\ markerPosition' = EvaluatedBlend(mesh[1], skeletonPose, markerData[1])
       /\ RecordedPos(data') = markerPosition']_vars

(* C7, amended: the position recorded and given to the marker by a sample *)
(* is 100 * (u*E(i0) + v*E(i1) + w*E(i2)).                                 *)
C7_ScaledBlend ==
  [][SampleStep =>
       /\ markerPosition'
            = multiplyScalar(EvaluatedBlend(mesh[1], skeletonPose, markerData[1]),
                             R(100))
       /\ RecordedPos(data') = markerPosition']_vars

(* A sample of a point inside a face, away from the origin *)
C7_InteriorPoint ==
  /\ Appended > 0
  /\ markerData # None
  /\ \A k \in 1..3 : markerData[1].barycoord[k] \notin {Zero, One}
  /\ markerPosition # VZero
  /\ markerPosition = RecordedPos(data)

(* C8: the normal handed to the orientation step of a sample is the       *)
(* normal of the triangle (E(i0), E(i1), E(i2)) of the evaluated vertices, *)
(* which the blend has left unchanged.                                     *)
C8_NormalOfEvaluated ==
  [][SampleStep =>
       normal' = EvaluatedNormal(mesh[1], skeletonPose, markerData[1])]_vars

(* A sample whose verts array no longer holds a triangle with the normal   *)
(* of the face it was evaluated from: the face is not degenerate, the      *)
(* triangle handed to getNormal is.                                        *)
C8_BlendedTriangle ==
  /\ Appended > 0
  /\ Len(verts) = 3
  /\ normal = getNormal(verts[1], verts[2], verts[3])
  /\ verts[2] = VZero

(* C9: the local hit point of a pick is the world hit point mapped        *)
(* through the inverse of (matrixWorld x bindMatrix).                      *)
C9_InverseOfProduct ==
  markerData # None =>
    localHit = applyMatrix4(hitPoint,
                 invert(multiply(mesh[1].matrixWorld, mesh[1].bindMatrix)))

(* A pick on a mesh whose bind transform is not the identity *)
C9_BoundElsewhere ==
  /\ lastPick = "hit"
  /\ mesh[1].bindMatrix # Identity
  /\ Det(mesh[1].bindMatrix.r) # Zero
  /\ Det(mesh[1].matrixWorld.r) # Zero
  /\ localHit = applyMatrix4(hitPoint, LocalHitMatrix(mesh[1]))

====
